---- MODULE Spec2Model ----
(***************************************************************************)
(* A model of src/main.rs of rust-module-example: the module tree declared *)
(* with `mod`, conditional compilation with #[cfg], the `use` imports, the *)
(* resolution of every path the function bodies name, and the execution of *)
(* main.  A build is modelled as three passes over the source (expansion   *)
(* of the `mod` declarations, the imports, the paths in function bodies),  *)
(* followed by the run of the binary.                                      *)
(***************************************************************************)
EXTENDS Integers, Sequences, FiniteSets, TLC

VARIABLES
    target,       \* build input: the target_family values of the build target
    test,         \* build input: TRUE when building tests (cfg(test))
    uncommented,  \* build input: the commented-out line that is enabled (0: none)
    phase,        \* "expand" | "imports" | "check" | "built" | "failed" | "running" | "exited"
    idx,          \* position of the current pass in its list of declarations
    mods,         \* the modules that survived cfg expansion
    names,        \* the name bindings of every scope
    errors,       \* the compile errors reported so far
    links,        \* the item each path of a function body was resolved to
    stack,        \* call stack of the running program
    ret,          \* value returned by the last call that returned one
    stdout,       \* lines written to standard output
    events,       \* events of the run, in order: <<kind, function, callee or caller>>
    exit          \* <<>> while the process has not exited, else <<exit code>>

vars == <<target, test, uncommented, phase, idx, mods, names, errors, links,
          stack, ret, stdout, events, exit>>

----------------------------------------------------------------------------
(* Exit codes of the process.                                              *)

\* println! panics when the write to stdout fails; a panic in main ends the
\* process with code 101.
EXIT_PANIC == 101

\* EXIT_SUCCESS with the code of a failed process.
EXIT_FAILURE == EXIT_PANIC

\* main returns (): the process exits with success.
EXIT_SUCCESS == 0

----------------------------------------------------------------------------
(* The declarations of main.rs.                                            *)

M(id, parent, name, pub, line, cfg) ==
    [id |-> id, kind |-> "mod", parent |-> parent, name |-> name,
     pub |-> pub, line |-> line, cfg |-> cfg]

F(id, parent, name, pub, line) ==
    [id |-> id, kind |-> "fn", parent |-> parent, name |-> name,
     pub |-> pub, line |-> line, cfg |-> "always"]

K(id, parent, name, pub, line) ==
    [id |-> id, kind |-> "const", parent |-> parent, name |-> name,
     pub |-> pub, line |-> line, cfg |-> "always"]

\* Every `mod` declaration, in source order, with the cfg attribute on it.
ModDecls ==
    << M("crate::a", "crate", "a", FALSE, 17, "always"),
       M("crate::multi_level_style_1", "crate", "multi_level_style_1", FALSE, 26, "always"),
       M("crate::multi_level_style_2", "crate", "multi_level_style_2", FALSE, 36, "always"),
       M("crate::inline", "crate", "inline", FALSE, 46, "always"),
       M("crate::tests", "crate", "tests", FALSE, 69, "test"),
       M("crate::path_override", "crate", "path_override", FALSE, 80, "always"),
       M("crate::platform#unix", "crate", "platform", FALSE, 86, "unix"),
       M("crate::platform#windows", "crate", "platform", FALSE, 90, "windows"),
       M("crate::name_resolution", "crate", "name_resolution", FALSE, 102, "always"),
       M("crate::name_resolution::private_inner", "crate::name_resolution",
         "private_inner", FALSE, 106, "always"),
       M("crate::name_resolution::public_inner", "crate::name_resolution",
         "public_inner", TRUE, 127, "always"),
       M("crate::use_examples", "crate", "use_examples", FALSE, 135, "always"),
       M("crate::use_examples::use_inner", "crate::use_examples",
         "use_inner", FALSE, 137, "always"),
       M("crate::use_examples::use_wildcard", "crate::use_examples",
         "use_wildcard", FALSE, 158, "always"),
       M("crate::use_examples::use_rename", "crate::use_examples",
         "use_rename", FALSE, 177, "always"),
       M("crate::use_examples::use_nested_1", "crate::use_examples",
         "use_nested_1", FALSE, 189, "always"),
       M("crate::use_examples::use_nested_1::use_nested_2",
         "crate::use_examples::use_nested_1", "use_nested_2", TRUE, 190, "always"),
       M("crate::use_examples::use_nested_1::use_nested_3",
         "crate::use_examples::use_nested_1", "use_nested_3", TRUE, 195, "always"),
       M("crate::use_examples::inner_1", "crate::use_examples",
         "inner_1", FALSE, 220, "always"),
       M("crate::use_examples::inner_1::inner_2", "crate::use_examples::inner_1",
         "inner_2", FALSE, 221, "always") >>

\* Every `fn` item.
FnDecls ==
    { F("crate::inline::inline_fn", "crate::inline", "inline_fn", TRUE, 53),
      F("crate::inline::inline_private", "crate::inline", "inline_private", FALSE, 61),
      F("crate::f", "crate", "f", FALSE, 64),
      F("crate::tests::ok", "crate::tests", "ok", FALSE, 71),
      F("crate::use_platform", "crate", "use_platform", FALSE, 94),
      F("crate::name_resolution::private_inner::a",
        "crate::name_resolution::private_inner", "a", FALSE, 109),
      F("crate::name_resolution::private_inner::b",
        "crate::name_resolution::private_inner", "b", TRUE, 115),
      F("crate::name_resolution::test_private_inner",
        "crate::name_resolution", "test_private_inner", FALSE, 118),
      F("crate::name_resolution::public_inner::a",
        "crate::name_resolution::public_inner", "a", TRUE, 128),
      F("crate::use_examples::use_inner::a", "crate::use_examples::use_inner", "a", TRUE, 138),
      F("crate::use_examples::use_inner::b", "crate::use_examples::use_inner", "b", TRUE, 139),
      F("crate::use_examples::test_use", "crate::use_examples", "test_use", FALSE, 145),
      F("crate::use_examples::use_wildcard::not",
        "crate::use_examples::use_wildcard", "not", TRUE, 159),
      F("crate::use_examples::use_wildcard::my",
        "crate::use_examples::use_wildcard", "my", TRUE, 160),
      F("crate::use_examples::use_wildcard::favourite",
        "crate::use_examples::use_wildcard", "favourite", TRUE, 161),
      F("crate::use_examples::test_use_wildcard",
        "crate::use_examples", "test_use_wildcard", FALSE, 169),
      F("crate::use_examples::use_rename::a", "crate::use_examples::use_rename", "a", TRUE, 178),
      F("crate::use_examples::use_nested_1::use_nested_2::g",
        "crate::use_examples::use_nested_1::use_nested_2", "g", TRUE, 191),
      F("crate::use_examples::use_nested_1::use_nested_2::h",
        "crate::use_examples::use_nested_1::use_nested_2", "h", TRUE, 192),
      F("crate::use_examples::use_nested_1::use_nested_3::g",
        "crate::use_examples::use_nested_1::use_nested_3", "g", TRUE, 196),
      F("crate::use_examples::use_nested_1::use_nested_3::i",
        "crate::use_examples::use_nested_1::use_nested_3", "i", TRUE, 197),
      F("crate::use_examples::use_nested_1::j",
        "crate::use_examples::use_nested_1", "j", TRUE, 200),
      F("crate::use_examples::test_use_nested",
        "crate::use_examples", "test_use_nested", FALSE, 209),
      F("crate::use_examples::inner_1::inner_2::x",
        "crate::use_examples::inner_1::inner_2", "x", TRUE, 222),
      F("crate::use_examples::test_pub_use", "crate::use_examples", "test_pub_use", FALSE, 230),
      F("crate::main", "crate", "main", FALSE, 255) }

\* The item platform::FAMILY that use_platform names (line 95).  It is defined
\* in unix.rs and in windows.rs, one per implementation of `platform`; these
\* files, like those of the other out-of-line modules (a, multi_level_style_1,
\* multi_level_style_2, path_override), are not part of main.rs, and nothing
\* else of their contents is named in it.  The string each FAMILY holds is
\* denoted by the constant's own id.
FamilyDecls ==
    { K("crate::platform#unix::FAMILY", "crate::platform#unix", "FAMILY", TRUE, 95),
      K("crate::platform#windows::FAMILY", "crate::platform#windows", "FAMILY", TRUE, 95) }

ModSet == { ModDecls[i] : i \in 1..Len(ModDecls) }

AllDecls == ModSet \cup FnDecls \cup FamilyDecls

Decl(id) == CHOOSE d \in AllDecls : d.id = id

ModuleIds == { "crate" } \cup { d.id : d \in ModSet }

Parent(id) == IF id = "crate" THEN "crate" ELSE Decl(id).parent

\* The modules from m up to the crate root, m included.
RECURSIVE Ancestors(_)
Ancestors(m) == IF m = "crate" THEN { "crate" } ELSE { m } \cup Ancestors(Parent(m))

\* s is module m or one of its descendants.
Within(s, m) == m \in Ancestors(s)

----------------------------------------------------------------------------
(* The `use` declarations and the function bodies.                         *)

U(line, scope, path, name, pub, when) ==
    [line |-> line, scope |-> scope, path |-> path, name |-> name,
     pub |-> pub, when |-> when]

\* Every `use` declaration, in source order.  scope is the module or the
\* function whose scope the declaration is in; name is the name bound ("*"
\* for a wildcard); when is 0 for a declaration of the source as written and
\* the line number for one that is commented out.
UseDecls ==
    << U(143, "crate::use_examples", <<"use_inner", "a">>, "a", FALSE, 0),
       U(154, "crate::use_examples::test_use", <<"use_inner", "b">>, "b", FALSE, 0),
       U(167, "crate::use_examples", <<"use_wildcard">>, "*", FALSE, 0),
       U(182, "crate::use_examples", <<"use_rename", "a">>, "a", FALSE, 182),
       U(185, "crate::use_examples", <<"use_rename", "a">>, "a_renamed", FALSE, 0),
       U(204, "crate::use_examples", <<"use_nested_1", "use_nested_2", "g">>, "g", FALSE, 0),
       U(204, "crate::use_examples", <<"use_nested_1", "use_nested_2", "h">>, "h", FALSE, 0),
       U(205, "crate::use_examples", <<"use_nested_1", "use_nested_3", "g">>,
         "use_nested_3_g", FALSE, 0),
       U(205, "crate::use_examples", <<"use_nested_1", "use_nested_3", "i">>, "i", FALSE, 0),
       U(206, "crate::use_examples", <<"use_nested_1", "j">>, "j", FALSE, 0),
       U(227, "crate::use_examples::inner_1", <<"inner_2", "x">>, "x", TRUE, 0) >>

St(fn, line, op, path, when) ==
    [fn |-> fn, line |-> line, op |-> op, path |-> path, when |-> when]

\* Every statement of every function body, in source order.  op is "call"
\* (a call of the function that path names), "read" (the body's value is the
\* constant that path names), "print" (println!) or "assert" (assert_eq!).
\* println!'s argument use_platform() is evaluated before the line is
\* written, so line 256 is a call followed by a print.
Stmts ==
    << St("crate::inline::inline_fn", 54, "call", <<"super", "f">>, 0),
       St("crate::inline::inline_fn", 55, "call", <<"crate", "f">>, 0),
       St("crate::inline::inline_fn", 57, "call", <<"inline_private">>, 0),
       St("crate::tests::ok", 72, "assert", <<>>, 0),
       St("crate::use_platform", 95, "read", <<"platform", "FAMILY">>, 0),
       St("crate::name_resolution::test_private_inner", 120, "call",
          <<"private_inner", "b">>, 0),
       St("crate::name_resolution::test_private_inner", 123, "call",
          <<"private_inner", "a">>, 123),
       St("crate::use_examples::test_use", 147, "call", <<"use_inner", "a">>, 0),
       St("crate::use_examples::test_use", 150, "call", <<"a">>, 0),
       St("crate::use_examples::test_use", 155, "call", <<"b">>, 0),
       St("crate::use_examples::test_use_wildcard", 170, "call", <<"not">>, 0),
       St("crate::use_examples::test_use_wildcard", 171, "call", <<"my">>, 0),
       St("crate::use_examples::test_use_wildcard", 172, "call", <<"favourite">>, 0),
       St("crate::use_examples::test_use_nested", 210, "call", <<"g">>, 0),
       St("crate::use_examples::test_use_nested", 211, "call", <<"use_nested_3_g">>, 0),
       St("crate::use_examples::test_use_nested", 212, "call", <<"h">>, 0),
       St("crate::use_examples::test_use_nested", 213, "call", <<"i">>, 0),
       St("crate::use_examples::test_use_nested", 214, "call", <<"j">>, 0),
       St("crate::use_examples::test_pub_use", 232, "call",
          <<"inner_1", "inner_2", "x">>, 232),
       St("crate::use_examples::test_pub_use", 236, "call", <<"inner_1", "x">>, 0),
       St("crate::main", 256, "call", <<"use_platform">>, 0),
       St("crate::main", 256, "print", <<>>, 0),
       St("crate::main", 257, "call", <<"inline", "inline_fn">>, 0),
       St("crate::main", 259, "call", <<"name_resolution", "public_inner", "a">>, 0) >>

\* The commented-out lines the source says do not compile.
CommentedOut == { 123, 182, 232 }

\* Body with a println! in f.
BodyFPrints(fn, un) ==
    IF fn = "crate::f" THEN << St("crate::f", 64, "print", <<>>, 0) >>
    ELSE SelectSeq(Stmts, LAMBDA s : s.fn = fn /\ s.when \in { 0, un })

\* Body with main's first call moved before the println!.
BodyCallFirst(fn, un) ==
    LET b == SelectSeq(Stmts, LAMBDA s : s.fn = fn /\ s.when \in { 0, un })
    IN  IF fn = "crate::main" THEN << b[3], b[1], b[2], b[4] >> ELSE b

\* The body of function fn when the commented-out line `un` is enabled.
Body(fn, un) == SelectSeq(Stmts, LAMBDA s : s.fn = fn /\ s.when \in { 0, un })

\* Greeting without the {} placeholder.
GreetingNoArgument(family) == << "Hello, ", "world", "!" >>

\* The line println! writes, as the pieces of its format string with the
\* argument in its place.
Greeting(family) ==
    << "Hello, ", "world", "! Running on platform family '", family, "'" >>

----------------------------------------------------------------------------
(* Name resolution.                                                        *)

ErrCodes == { "E0252", "E0255", "E0425", "E0428", "E0432", "E0433", "E0603", "E0659" }

IsErr(r) == r \in ErrCodes

\* The module a scope id (a module or a function) is in.
HolderMod(scope) == IF scope \in ModuleIds THEN scope ELSE Decl(scope).parent

\* The scope of module or function id: its module, and its function or "-".
ScopeOf(id) ==
    IF id \in ModuleIds THEN [mod |-> id, fn |-> "-"]
    ELSE [mod |-> Decl(id).parent, fn |-> id]

\* The binding a declaration makes in the scope of its parent.
DeclEntry(d) ==
    [scope |-> d.parent, name |-> d.name,
     ns |-> IF d.kind = "mod" THEN "type" ELSE "value",
     item |-> d.id, pub |-> d.pub, via |-> "decl"]

\* Accessible with private bindings usable by nobody else, descendants included.
AccessiblePubOnly(e, S) == e.pub \/ S.mod = HolderMod(e.scope)

\* Accessible with every binding usable from everywhere.
AccessibleNoPrivacy(e, S) == TRUE

\* Privacy: a binding is usable from scope S when it is `pub`, or when S is in
\* the module that holds the binding or in a descendant of that module.
Accessible(e, S) == e.pub \/ Within(S.mod, HolderMod(e.scope))

\* The item `name` is bound to in scope `holder`, as seen from scope S; an
\* explicit binding shadows one made by a wildcard import.
Lookup(nm, S, holder, name, ns) ==
    LET cands == { e \in nm : e.scope = holder /\ e.name = name /\ e.ns = ns }
        explicit == { e \in cands : e.via # "glob" }
        chosen == IF explicit # {} THEN explicit ELSE cands
        items == { e.item : e \in chosen }
    IN  IF chosen = {} THEN (IF ns = "type" THEN "E0433" ELSE "E0425")
        ELSE IF Cardinality(items) > 1 THEN "E0659"
        ELSE IF \E e \in chosen : Accessible(e, S)
             THEN CHOOSE i \in items : TRUE
             ELSE "E0603"

\* Resolve the segments of path one after the other, starting in scope cur.
RECURSIVE Walk(_, _, _, _, _)
Walk(nm, S, cur, path, ns) ==
    IF Len(path) = 1 THEN Lookup(nm, S, cur, path[1], ns)
    ELSE LET m == Lookup(nm, S, cur, path[1], "type")
         IN  IF IsErr(m) THEN m
             ELSE IF Decl(m).kind # "mod" THEN "E0433"
             ELSE Walk(nm, S, m, Tail(path), ns)

\* SuperOf naming the module itself.
SuperIsSelf(S) == S.mod

\* The module `super` names in scope S.
SuperOf(S) == Parent(S.mod)

\* The item path names in scope S: `crate` starts at the crate root, `super`
\* at the parent module, `self` at the module; any other first segment is
\* looked up in the function's own scope, then in the module's.
Resolve(nm, S, path, ns) ==
    IF path[1] = "crate" THEN Walk(nm, S, "crate", Tail(path), ns)
    ELSE IF path[1] = "super" THEN
        (IF S.mod = "crate" THEN "E0433" ELSE Walk(nm, S, SuperOf(S), Tail(path), ns))
    ELSE IF path[1] = "self" THEN Walk(nm, S, S.mod, Tail(path), ns)
    ELSE LET nsf == IF Len(path) = 1 THEN ns ELSE "type"
             inFn == S.fn # "-" /\ ~IsErr(Lookup(nm, S, S.fn, path[1], nsf))
         IN  Walk(nm, S, IF inFn THEN S.fn ELSE S.mod, path, ns)

----------------------------------------------------------------------------
(* The build.                                                              *)

\* The target_family sets of the build targets: unix (x86_64-unknown-linux-gnu),
\* windows (x86_64-pc-windows-msvc), unix and wasm (wasm32-unknown-emscripten),
\* wasm alone (wasm32-unknown-unknown), none (thumbv7em-none-eabi).
TargetFamilies == { {"unix"}, {"windows"}, {"unix", "wasm"}, {"wasm"}, {} }

\* CfgActive with the attributes ignored.
CfgIgnored(cfg) == TRUE

\* Whether a cfg attribute lets its item through.
CfgActive(cfg) ==
    \/ cfg = "always"
    \/ cfg = "test" /\ test
    \/ cfg = "unix" /\ "unix" \in target
    \/ cfg = "windows" /\ "windows" \in target

\* The bindings of the items declared directly in module m.
ItemEntries(m) == { DeclEntry(d) : d \in { x \in FnDecls \cup FamilyDecls : x.parent = m } }

Init ==
    /\ target \in TargetFamilies
    /\ test \in BOOLEAN
    /\ uncommented \in { 0 } \cup CommentedOut
    /\ phase = "expand"
    /\ idx = 1
    /\ mods = { "crate" }
    /\ names = ItemEntries("crate")
    /\ errors = {}
    /\ links = {}
    /\ stack = <<>>
    /\ ret = "-"
    /\ stdout = <<>>
    /\ events = <<>>
    /\ exit = <<>>

NoRun == UNCHANGED <<stack, ret, stdout, events, exit>>

\* One `mod` declaration: dropped when its cfg is off; an error when the name
\* is already defined in the parent; else the module and its items are added.
ExpandMod ==
    /\ phase = "expand"
    /\ idx <= Len(ModDecls)
    /\ LET d == ModDecls[idx]
           e == DeclEntry(d)
           on == CfgActive(d.cfg) /\ d.parent \in mods
           dup == \E o \in names : o.scope = e.scope /\ o.name = e.name /\ o.ns = e.ns
       IN  /\ mods' = IF on /\ ~dup THEN mods \cup { d.id } ELSE mods
           /\ names' = IF on /\ ~dup THEN names \cup { e } \cup ItemEntries(d.id) ELSE names
           /\ errors' = IF on /\ dup THEN errors \cup { [code |-> "E0428", line |-> d.line] }
                        ELSE errors
    /\ idx' = IF idx = Len(ModDecls) THEN 1 ELSE idx + 1
    /\ phase' = IF idx = Len(ModDecls) THEN "imports" ELSE phase
    /\ UNCHANGED <<target, test, uncommented, links>>
    /\ NoRun

\* ImportPub with `pub use` read as `use`.
ImportNeverPub(u) == FALSE

\* Whether the binding a `use` declaration makes is exported.
ImportPub(u) == u.pub

\* Clash with no check of the names already imported.
NoClash(nm, u, found) == {}

\* The explicit bindings of the scope that already have the name u binds.
Clash(nm, u, found) ==
    { o \in nm : o.scope = u.scope /\ o.name = u.name /\ o.ns \in found /\ o.via # "glob" }

\* The bindings `use` declaration u adds, or the error it is.
UseOutcome(nm, u) ==
    LET S == ScopeOf(u.scope)
        bind(e, via) == [scope |-> u.scope, name |-> IF via = "glob" THEN e.name ELSE u.name,
                         ns |-> e.ns, item |-> e.item, pub |-> ImportPub(u), via |-> via]
    IN  IF u.name = "*" THEN
            LET m == Resolve(nm, S, u.path, "type")
            IN  IF IsErr(m) THEN [err |-> "E0432", add |-> {}]
                ELSE [err |-> "-",
                      add |-> { bind(e, "glob") :
                                e \in { x \in nm : x.scope = m /\ Accessible(x, S) } }]
        ELSE
            LET found == { ns \in { "type", "value" } : ~IsErr(Resolve(nm, S, u.path, ns)) }
                clash == Clash(nm, u, found)
            IN  IF found = {} THEN
                    [err |-> IF Resolve(nm, S, u.path, "value") = "E0603"
                             THEN "E0603" ELSE "E0432", add |-> {}]
                ELSE IF clash # {} THEN
                    [err |-> IF \E o \in clash : o.via = "use" THEN "E0252" ELSE "E0255",
                     add |-> {}]
                ELSE [err |-> "-",
                      add |-> { bind([ns |-> ns, item |-> Resolve(nm, S, u.path, ns)], "use") :
                                ns \in found }]

\* One `use` declaration.
ProcessUse ==
    /\ phase = "imports"
    /\ idx <= Len(UseDecls)
    /\ LET u == UseDecls[idx]
           on == u.when \in { 0, uncommented } /\ HolderMod(u.scope) \in mods
           out == UseOutcome(names, u)
       IN  /\ names' = IF on THEN names \cup out.add ELSE names
           /\ errors' = IF on /\ out.err # "-"
                        THEN errors \cup { [code |-> out.err, line |-> u.line] }
                        ELSE errors
    /\ idx' = IF idx = Len(UseDecls) THEN 1 ELSE idx + 1
    /\ phase' = IF idx = Len(UseDecls) THEN "check" ELSE phase
    /\ UNCHANGED <<target, test, uncommented, mods, links>>
    /\ NoRun

\* One statement of a function body: the path it names must resolve, and
\* the statement is compiled to a use of the item it resolved to.
CheckPath ==
    /\ phase = "check"
    /\ idx <= Len(Stmts)
    /\ LET s == Stmts[idx]
           on == /\ s.when \in { 0, uncommented }
                 /\ Decl(s.fn).parent \in mods
                 /\ s.op \in { "call", "read" }
           r == Resolve(names, ScopeOf(s.fn), s.path, "value")
       IN  /\ errors' = IF on /\ IsErr(r)
                        THEN errors \cup { [code |-> r, line |-> s.line] }
                        ELSE errors
           /\ links' = IF on /\ ~IsErr(r)
                       THEN links \cup { [fn |-> s.fn, line |-> s.line, item |-> r] }
                       ELSE links
    /\ idx' = idx + 1
    /\ UNCHANGED <<target, test, uncommented, phase, mods, names>>
    /\ NoRun

\* The end of the build: a binary exists only when no error was reported.
FinishBuild ==
    /\ phase = "check"
    /\ idx > Len(Stmts)
    /\ phase' = IF errors = {} THEN "built" ELSE "failed"
    /\ UNCHANGED <<target, test, uncommented, idx, mods, names, errors, links>>
    /\ NoRun

----------------------------------------------------------------------------
(* The run of the binary.                                                  *)

NoBuild == UNCHANGED <<target, test, uncommented, idx, mods, names, errors, links>>

Top == stack[Len(stack)]

\* The statement the running function is at, or an "end" marker at the end
\* of its body.
Current ==
    LET b == Body(Top.fn, uncommented)
    IN  IF Top.pc <= Len(b) THEN b[Top.pc] ELSE St(Top.fn, 0, "end", <<>>, 0)

\* The item the current statement was compiled to use.
Linked == (CHOOSE l \in links : l.fn = Top.fn /\ l.line = Current.line).item

\* The process starts in main.  A test build makes the test harness, which
\* does not run main.
Start ==
    /\ phase = "built"
    /\ ~test
    /\ phase' = "running"
    /\ stack' = << [fn |-> "crate::main", pc |-> 1] >>
    /\ UNCHANGED <<ret, stdout, events, exit>>
    /\ NoBuild

\* A call statement: control passes to the function the path resolved to.
Call ==
    /\ phase = "running"
    /\ Current.op = "call"
    /\ stack' = Append(stack, [fn |-> Linked, pc |-> 1])
    /\ events' = Append(events, << "call", Top.fn, Linked >>)
    /\ UNCHANGED <<phase, ret, stdout, exit>>
    /\ NoBuild

\* The tail expression of use_platform: the function's value is the constant.
ReadConst ==
    /\ phase = "running"
    /\ Current.op = "read"
    /\ ret' = Linked
    /\ stack' = [stack EXCEPT ![Len(stack)].pc = @ + 1]
    /\ UNCHANGED <<phase, stdout, events, exit>>
    /\ NoBuild

\* println! when the write to stdout succeeds: one line is written.
PrintOk ==
    /\ phase = "running"
    /\ Current.op = "print"
    /\ stdout' = Append(stdout, Greeting(ret))
    /\ events' = Append(events, << "print", Top.fn, "-" >>)
    /\ stack' = [stack EXCEPT ![Len(stack)].pc = @ + 1]
    /\ UNCHANGED <<phase, ret, exit>>
    /\ NoBuild

\* println! when the write to stdout fails (a closed pipe, a full device):
\* it panics, no complete line is written and the process exits with 101.
PrintPanic ==
    /\ phase = "running"
    /\ Current.op = "print"
    /\ events' = Append(events, << "panic", Top.fn, "-" >>)
    /\ stack' = <<>>
    /\ phase' = "exited"
    /\ exit' = << EXIT_PANIC >>
    /\ UNCHANGED <<ret, stdout>>
    /\ NoBuild

\* The end of a function body that has a caller: the caller goes on.
Return ==
    /\ phase = "running"
    /\ Current.op = "end"
    /\ Len(stack) > 1
    /\ events' = Append(events, << "return", Top.fn, stack[Len(stack) - 1].fn >>)
    /\ stack' = [SubSeq(stack, 1, Len(stack) - 1) EXCEPT ![Len(stack) - 1].pc = @ + 1]
    /\ UNCHANGED <<phase, ret, stdout, exit>>
    /\ NoBuild

\* The end of main: the process exits with success.
Exit ==
    /\ phase = "running"
    /\ Current.op = "end"
    /\ Len(stack) = 1
    /\ stack' = <<>>
    /\ phase' = "exited"
    /\ exit' = << EXIT_SUCCESS >>
    /\ UNCHANGED <<ret, stdout, events>>
    /\ NoBuild

\* A step of the build.
Build == ExpandMod \/ ProcessUse \/ CheckPath \/ FinishBuild

\* A step of the running process.
Run == Call \/ ReadConst \/ PrintOk \/ PrintPanic \/ Return \/ Exit

Next == Build \/ Start \/ Run

Spec == Init /\ [][Next]_vars

\* A process that was started is scheduled until it exits.
FairSpec == Spec /\ WF_vars(Run)

----------------------------------------------------------------------------
(* Vocabulary of the properties.                                           *)

Range(s) == { s[i] : i \in DOMAIN s }

IsPrefix(s, t) == Len(s) <= Len(t) /\ \A i \in 1..Len(s) : s[i] = t[i]

\* The passes that build `names` are over.
Resolved == phase \notin { "expand", "imports" }

\* The build is over, with a binary or with errors, and nothing has run yet.
BuildDone == phase \in { "built", "failed" }

\* A binary was produced.
Built == phase \in { "built", "running", "exited" }

\* The declarations that survived cfg expansion.
ActiveItems ==
    { d \in AllDecls : IF d.kind = "mod" THEN d.id \in mods ELSE d.parent \in mods }

NsOf(d) == IF d.kind = "mod" THEN "type" ELSE "value"

\* The path of an item from the crate root: crate::m1::...::name.
RECURSIVE CanonPath(_)
CanonPath(id) ==
    IF id = "crate" THEN << "crate" >> ELSE Append(CanonPath(Parent(id)), Decl(id).name)

\* Item X can be named from module S by its own path.
CanonReach(S, X) == Resolve(names, ScopeOf(S), CanonPath(X.id), NsOf(X)) = X.id

\* Item X can be named from module S by its own path or through an import.
Reachable(S, X) ==
    \/ CanonReach(S, X)
    \/ \E e \in names :
        /\ e.via # "decl" /\ e.scope \in ModuleIds /\ e.item = X.id
        /\ Resolve(names, ScopeOf(S), Append(CanonPath(e.scope), e.name), e.ns) = X.id

\* X is `pub`, and so is every module that has to be entered on the way from
\* S to the module that defines X.
ExportedOnPath(S, X) ==
    X.pub /\ \A m \in Ancestors(X.parent) \ Ancestors(S) : Decl(m).pub

\* Every item on the way from the crate root to item id (the modules around
\* it and the item itself) is `pub` or declared in S or in an ancestor of S.
RECURSIVE VisibleChain(_, _)
VisibleChain(S, id) ==
    \/ id = "crate"
    \/ /\ Decl(id).pub \/ Within(S, Parent(id))
       /\ VisibleChain(S, Parent(id))

MainFn == "crate::main"
InlineFn == "crate::inline::inline_fn"
InlinePrivate == "crate::inline::inline_private"
PublicInnerA == "crate::name_resolution::public_inner::a"
PrivateInner == "crate::name_resolution::private_inner"
UseExamples == "crate::use_examples"
Inner1 == "crate::use_examples::inner_1"
Inner2X == "crate::use_examples::inner_1::inner_2::x"

\* The FAMILY constant of the implementation of `platform` that was selected.
SelectedFamily ==
    IF "crate::platform#unix" \in mods THEN "crate::platform#unix::FAMILY"
    ELSE "crate::platform#windows::FAMILY"

\* The events of inline_fn's body, from its first statement to its return.
InlineFnEvents ==
    << << "call", InlineFn, "crate::f" >>, << "return", "crate::f", InlineFn >>,
       << "call", InlineFn, "crate::f" >>, << "return", "crate::f", InlineFn >>,
       << "call", InlineFn, InlinePrivate >>, << "return", InlinePrivate, InlineFn >>,
       << "return", InlineFn, MainFn >> >>

\* The events of a whole run in which the print succeeds.
RunEvents ==
    << << "call", MainFn, "crate::use_platform" >>,
       << "return", "crate::use_platform", MainFn >>,
       << "print", MainFn, "-" >>,
       << "call", MainFn, InlineFn >> >>
    \o InlineFnEvents
    \o << << "call", MainFn, PublicInnerA >>, << "return", PublicInnerA, MainFn >> >>

\* The events of a run in which println! panics.
PanicEvents ==
    << << "call", MainFn, "crate::use_platform" >>,
       << "return", "crate::use_platform", MainFn >>,
       << "panic", MainFn, "-" >> >>

\* The greeting is on stdout: one line, with the word "world" and, in the
\* place of the argument, the value use_platform() returned, which is the
\* FAMILY of the selected implementation, one of the two compiled-in strings.
GreetingEmitted ==
    /\ Len(stdout) = 1
    /\ "world" \in Range(stdout[1])
    /\ Len(stdout[1]) = 5
    /\ stdout[1][4] = ret
    /\ stdout[1][4] = SelectedFamily
    /\ stdout[1][4] \in { d.id : d \in FamilyDecls }
    /\ events[1] = << "call", MainFn, "crate::use_platform" >>

----------------------------------------------------------------------------
(* C1 *)

\* C1 as stated: every execution of main terminates having emitted the
\* greeting with "world" and the selected platform's FAMILY.
C1_Original == phase = "exited" => GreetingEmitted

\* C1, amended: every execution of main terminates; one whose println! succeeds
\* has emitted, when it exits, the greeting with "world" and the FAMILY of the
\* selected platform module obtained through use_platform(); one whose
\* println! panics has emitted nothing.
C1_Terminates_Greeting ==
    /\ [](/\ exit = << EXIT_SUCCESS >> => GreetingEmitted
          /\ exit = << EXIT_PANIC >> => stdout = <<>>
          /\ Len(stdout) >= 1 => GreetingEmitted)
    /\ (phase = "running" ~> phase = "exited")

C1_Witness ==
    /\ exit = << EXIT_SUCCESS >>
    /\ GreetingEmitted
    /\ stdout[1][4] = "crate::platform#unix::FAMILY"

----------------------------------------------------------------------------
(* C2 *)

\* C2 as stated: the output line count is 1 in the final state and never
\* exceeds 1.
C2_Original == Len(stdout) <= 1 /\ (phase = "exited" => Len(stdout) = 1)

\* C2, amended: the output line count never exceeds 1; it is 1 in the final
\* state of an execution whose println! succeeded and 0 in one whose println!
\* panicked; only the println! of main writes, none of the functions called
\* afterwards does.
C2_OneLine ==
    /\ Len(stdout) <= 1
    /\ exit = << EXIT_SUCCESS >> => Len(stdout) = 1
    /\ exit = << EXIT_PANIC >> => Len(stdout) = 0
    /\ Len(stdout) = Cardinality({ i \in DOMAIN events : events[i][1] = "print" })
    /\ \A i \in DOMAIN events : events[i][1] = "print" => events[i][2] = MainFn

C2_Witness ==
    /\ exit = << EXIT_SUCCESS >>
    /\ Len(stdout) = 1
    /\ \E i \in DOMAIN events : events[i] = << "call", InlineFn, InlinePrivate >>

----------------------------------------------------------------------------
(* C3 *)

\* C3 as stated: every execution ends with exit code 0.
C3_Original == phase = "exited" => exit = << EXIT_SUCCESS >>

\* C3, amended: the calls of main cannot fail and the only step that can is
\* the println!: an execution ends with exit code 0 when the write to stdout
\* succeeds, and with the panic's exit code 101, at the println! of main and
\* before any of the calls, when it fails.
C3_ExitCodes ==
    /\ exit \in { <<>>, << 0 >>, << 101 >> }
    /\ phase = "exited" <=> exit # <<>>
    /\ phase = "exited" /\ Len(stdout) = 1 => exit = << 0 >>
    /\ exit = << 101 >> => events = PanicEvents
    /\ \A i \in DOMAIN events :
        events[i][1] = "call" => \E d \in FnDecls : d.id = events[i][3]

C3_Witness == exit = << EXIT_PANIC >> /\ events = PanicEvents

----------------------------------------------------------------------------
(* C4 *)

\* C4 as stated: X is reachable from S if and only if every module on the
\* path from S to X's defining module marks X and the intermediate modules
\* as exported.
C4_Original ==
    BuildDone => \A S \in mods : \A X \in ActiveItems :
                     Reachable(S, X) <=> ExportedOnPath(S, X)

\* C4, amended: X is reachable from S if and only if X and every module
\* around it, from the crate root down, is exported or is declared in S or in
\* an ancestor of S, or X is imported into such a module under a name that is
\* exported or that S is inside the scope of.
C4_Reachability ==
    BuildDone => \A S \in mods : \A X \in ActiveItems :
        Reachable(S, X) <=>
            \/ VisibleChain(S, X.id)
            \/ \E e \in names :
                /\ e.via # "decl" /\ e.scope \in ModuleIds /\ e.item = X.id
                /\ e.pub \/ Within(S, e.scope)
                /\ VisibleChain(S, e.scope)

C4_Witness ==
    /\ phase = "built"
    /\ Reachable("crate::inline", Decl("crate::f"))
    /\ ~ExportedOnPath("crate::inline", Decl("crate::f"))
    /\ Reachable(UseExamples, Decl(Inner2X))
    /\ Reachable("crate::name_resolution", Decl("crate::name_resolution::private_inner::b"))

----------------------------------------------------------------------------
(* C5 *)

PlatformUnix == "crate::platform#unix" \in mods
PlatformWindows == "crate::platform#windows" \in mods

\* C5 as stated: for every build target exactly one of the two declarations
\* of `platform` is active.
C5_Original == phase # "expand" => (PlatformUnix /\ ~PlatformWindows) \/ (PlatformWindows /\ ~PlatformUnix)

\* C5, amended: the two declarations of `platform` are never both active, and
\* exactly one is on a target of the unix or of the windows family; there
\* platform::FAMILY exists and use_platform() returns the FAMILY of the file
\* that was selected.  On a target of neither family both are inactive and
\* the crate does not build: platform::FAMILY in use_platform is unresolved.
C5_PlatformSelection ==
    /\ ~(PlatformUnix /\ PlatformWindows)
    /\ phase # "expand" =>
        /\ PlatformUnix <=> "unix" \in target
        /\ PlatformWindows <=> "windows" \in target
        /\ \A e \in errors : e.code # "E0428"
    /\ Resolved /\ (PlatformUnix \/ PlatformWindows) =>
        Resolve(names, ScopeOf("crate::use_platform"), << "platform", "FAMILY" >>, "value")
            = SelectedFamily
    /\ ~PlatformUnix /\ ~PlatformWindows =>
        /\ ~Built
        /\ phase = "failed" => [code |-> "E0433", line |-> 95] \in errors
    /\ ret # "-" => ret = SelectedFamily
    /\ Built /\ uncommented = 0 => (PlatformUnix \/ PlatformWindows)

C5_Witness ==
    /\ phase = "exited"
    /\ PlatformWindows
    /\ ret = "crate::platform#windows::FAMILY"
    /\ events[2] = << "return", "crate::use_platform", MainFn >>

----------------------------------------------------------------------------
(* C6 *)

\* C6 as stated: every execution prints the greeting, then calls
\* inline::inline_fn, then name_resolution::public_inner::a, and terminates
\* right after.
C6_Original == phase = "exited" => events = RunEvents

\* The calls main itself makes after its print.
CallsOfMainAfterPrint ==
    { i \in DOMAIN events :
        /\ events[i][1] = "call" /\ events[i][2] = MainFn
        /\ \E j \in 1..(i - 1) : events[j][1] = "print" }

\* C6, amended: execution is one sequential thread with a fixed order of
\* events.  When the println! succeeds main prints the greeting, then calls
\* inline::inline_fn, then name_resolution::public_inner::a, and terminates
\* right after: exactly two calls of main follow the print, each callee returns
\* before the next step starts, and no call of these precedes the print.  When
\* the println! panics the execution ends there, before any of the calls.
C6_FixedOrder ==
    /\ IsPrefix(events, RunEvents) \/ events = PanicEvents
    /\ exit = << EXIT_SUCCESS >> => events = RunEvents /\ Cardinality(CallsOfMainAfterPrint) = 2
    /\ exit = << EXIT_PANIC >> => events = PanicEvents
    /\ phase = "running" =>
        /\ stack[1].fn = MainFn
        /\ \A i \in 2..Len(stack) :
            \E j \in DOMAIN events : events[j] = << "call", stack[i - 1].fn, stack[i].fn >>
    /\ \A i \in DOMAIN events :
        events[i][1] = "call" /\ events[i][3] \in { InlineFn, PublicInnerA } =>
            \E j \in 1..(i - 1) : events[j][1] = "print"

C6_Witness == exit = << EXIT_SUCCESS >> /\ events = RunEvents /\ stack = <<>>

----------------------------------------------------------------------------
(* C7 *)

\* C7: an item without `pub` can be named, by its path, from its declaring
\* module and that module's descendants and from nowhere else; a `pub` item
\* can be named by its path from exactly the modules that can name its parent
\* module.  private_inner::a is reachable only from private_inner;
\* private_inner::b from name_resolution (line 120) but not from the crate
\* root; public_inner::a from the crate root (line 259).  Enabling line 123,
\* which names private_inner::a from name_resolution, is the error E0603.
C7_Visibility ==
    /\ BuildDone => \A S \in mods : \A X \in ActiveItems :
        CanonReach(S, X) <=>
            IF X.pub THEN (X.parent = "crate" \/ CanonReach(S, Decl(X.parent)))
            ELSE Within(S, X.parent)
    /\ BuildDone => \A S \in mods :
        /\ CanonReach(S, Decl("crate::name_resolution::private_inner::a")) <=> S = PrivateInner
        /\ Reachable(S, Decl("crate::name_resolution::private_inner::a")) <=> S = PrivateInner
    /\ BuildDone =>
        /\ CanonReach("crate::name_resolution", Decl("crate::name_resolution::private_inner::b"))
        /\ ~Reachable("crate", Decl("crate::name_resolution::private_inner::b"))
        /\ Resolve(names, ScopeOf("crate"),
                   << "name_resolution", "private_inner", "b" >>, "value") = "E0603"
        /\ CanonReach("crate", Decl(PublicInnerA))
        /\ Resolve(names, ScopeOf(MainFn),
                   << "name_resolution", "public_inner", "a" >>, "value") = PublicInnerA
        /\ \A e \in errors : e.line \notin { 120, 259 }
    /\ BuildDone /\ uncommented = 123 =>
        phase = "failed" /\ [code |-> "E0603", line |-> 123] \in errors
    /\ \A e \in errors : e.line = 123 => uncommented = 123

C7_Witness ==
    /\ phase = "failed"
    /\ uncommented = 123
    /\ [code |-> "E0603", line |-> 123] \in errors
    /\ "unix" \in target

----------------------------------------------------------------------------
(* C8 *)

TestPubUse == ScopeOf("crate::use_examples::test_pub_use")

\* The bindings with inner_1's `pub use inner_2::x` replaced by `use inner_2::x`.
WithPlainUse ==
    { IF e.scope = Inner1 /\ e.name = "x" /\ e.via = "use" THEN [e EXCEPT !.pub = FALSE] ELSE e :
      e \in names }

\* C8: in use_examples the path inner_1::x resolves, to the function that
\* inner_2::x names inside inner_1; the path inner_1::inner_2::x does not
\* resolve there, because inner_2 is private to inner_1 (enabling line 232 is
\* the error E0603); with a plain `use` in place of the `pub use` the name x
\* would resolve inside inner_1 only.
C8_ReExport ==
    /\ Resolved =>
        /\ Resolve(names, TestPubUse, << "inner_1", "x" >>, "value") = Inner2X
        /\ Resolve(names, ScopeOf(Inner1), << "inner_2", "x" >>, "value") = Inner2X
        /\ Resolve(names, TestPubUse, << "inner_1", "inner_2", "x" >>, "value") = "E0603"
        /\ ~CanonReach(UseExamples, Decl(Inner2X))
        /\ \A S \in mods :
            Resolve(WithPlainUse, ScopeOf(S),
                    << "crate", "use_examples", "inner_1", "x" >>, "value") = Inner2X
            <=> Within(S, Inner1)
        /\ Resolve(WithPlainUse, TestPubUse, << "inner_1", "x" >>, "value") = "E0603"
    /\ \A e \in errors : e.line # 236 /\ (e.line = 232 => uncommented = 232)
    /\ BuildDone /\ uncommented = 232 =>
        phase = "failed" /\ [code |-> "E0603", line |-> 232] \in errors

C8_Witness ==
    /\ phase = "built"
    /\ uncommented = 0
    /\ \E e \in names : e.scope = Inner1 /\ e.name = "x" /\ e.pub /\ e.via = "use"
    /\ Resolve(names, TestPubUse, << "inner_1", "x" >>, "value") = Inner2X

----------------------------------------------------------------------------
(* C9 *)

\* The bindings with inline_fn declared without `pub`.
WithPrivateInlineFn ==
    { IF e.item = InlineFn /\ e.via = "decl" THEN [e EXCEPT !.pub = FALSE] ELSE e : e \in names }

\* The events that follow the call of inline_fn, up to its return.
AfterInlineFnCall(i) == SubSeq(events, i + 1, IF Len(events) < i + 7 THEN Len(events) ELSE i + 7)

\* C9: in inline, super::f and crate::f resolve to the same item, the private
\* function f of the crate root; inline_private can be named from inline (and
\* its descendants) only; the crate root can name inline::inline_fn, and could
\* not were it not `pub`.  A call of inline_fn calls f, f, inline_private in
\* that order and returns; no function is on the stack twice.
C9_InlineFn ==
    /\ Resolved =>
        /\ Resolve(names, ScopeOf(InlineFn), << "super", "f" >>, "value") = "crate::f"
        /\ Resolve(names, ScopeOf(InlineFn), << "crate", "f" >>, "value") = "crate::f"
        /\ ~Decl("crate::f").pub
        /\ \A S \in mods : Reachable(S, Decl(InlinePrivate)) <=> Within(S, "crate::inline")
        /\ Resolve(names, ScopeOf(MainFn), << "inline", "inline_fn" >>, "value") = InlineFn
        /\ Resolve(WithPrivateInlineFn, ScopeOf(MainFn),
                   << "inline", "inline_fn" >>, "value") = "E0603"
        /\ \A e \in errors : e.line \notin { 54, 55, 57, 257 }
    /\ \A i \in DOMAIN events :
        events[i] = << "call", MainFn, InlineFn >> =>
            /\ IsPrefix(AfterInlineFnCall(i), InlineFnEvents)
            /\ exit = << EXIT_SUCCESS >> => AfterInlineFnCall(i) = InlineFnEvents
    /\ \A i, j \in DOMAIN stack : stack[i].fn = stack[j].fn => i = j
    /\ Cardinality({ i \in DOMAIN events : events[i][1] = "call" /\ events[i][3] = InlineFn }) <= 1

C9_Witness ==
    /\ phase = "running"
    /\ Len(stack) = 2
    /\ Top.fn = InlineFn
    /\ Current.op = "end"
    /\ \E i \in DOMAIN events :
        /\ events[i] = << "call", MainFn, InlineFn >>
        /\ SubSeq(events, i + 1, Len(events)) = SubSeq(InlineFnEvents, 1, 6)

----------------------------------------------------------------------------
(* C10 *)

UseExamplesScope == ScopeOf(UseExamples)

\* What name is bound to in the scope of use_examples.
Bound(name) == Lookup(names, UseExamplesScope, UseExamples, name, "value")

\* The imports are processed.
Imported == phase # "expand" /\ phase # "imports"

\* C10: once the `use` declarations are processed every name imported into
\* use_examples is bound to exactly one item: a to use_inner::a, a_renamed to
\* use_rename::a, g to use_nested_2::g, use_nested_3_g to use_nested_3::g, h,
\* i, j to their items and not, my, favourite to the items of use_wildcard.
\* Enabling line 182, which imports use_rename::a as a, is the error E0252 and
\* adds no binding.
C10_Imports ==
    /\ \A e1, e2 \in names :
        e1.scope = e2.scope /\ e1.name = e2.name /\ e1.ns = e2.ns /\ e1.via # "decl"
            => e1.item = e2.item
    /\ Imported =>
        /\ Bound("a") = "crate::use_examples::use_inner::a"
        /\ Bound("a_renamed") = "crate::use_examples::use_rename::a"
        /\ Bound("g") = "crate::use_examples::use_nested_1::use_nested_2::g"
        /\ Bound("use_nested_3_g") = "crate::use_examples::use_nested_1::use_nested_3::g"
        /\ Bound("h") = "crate::use_examples::use_nested_1::use_nested_2::h"
        /\ Bound("i") = "crate::use_examples::use_nested_1::use_nested_3::i"
        /\ Bound("j") = "crate::use_examples::use_nested_1::j"
        /\ Bound("not") = "crate::use_examples::use_wildcard::not"
        /\ Bound("my") = "crate::use_examples::use_wildcard::my"
        /\ Bound("favourite") = "crate::use_examples::use_wildcard::favourite"
        /\ Lookup(names, ScopeOf("crate::use_examples::test_use"),
                  "crate::use_examples::test_use", "b", "value")
             = "crate::use_examples::use_inner::b"
        /\ { e.name : e \in { x \in names : x.scope = UseExamples /\ x.via # "decl" } }
             = { "a", "a_renamed", "g", "use_nested_3_g", "h", "i", "j",
                 "not", "my", "favourite" }
        /\ uncommented = 182 <=> [code |-> "E0252", line |-> 182] \in errors
        /\ uncommented = 182 => ~Built
    /\ \A e \in errors : e.code \notin { "E0432", "E0255", "E0659" }

C10_Witness ==
    /\ phase = "failed"
    /\ uncommented = 182
    /\ [code |-> "E0252", line |-> 182] \in errors
    /\ Bound("a") = "crate::use_examples::use_inner::a"
    /\ Bound("a_renamed") = "crate::use_examples::use_rename::a"

====
